---- MODULE Spec2Model ----
(***************************************************************************)
(* detect_session (include/http/detect_session.hpp): one Detector per      *)
(* accepted connection.  run() dispatches on_run onto the executor of      *)
(* stream_, on_run arms a 30 s deadline and starts async_detect_ssl, and   *)
(* on_detect either reports the failure or moves stream_ and buffer_ into  *)
(* an ssl_http_session or a plain_http_session and runs it.                *)
(***************************************************************************)
EXTENDS Integers, Sequences, FiniteSets, TLC

\* ---------------------------------------------------------------- bounds
NumWorkers == 2       \* threads of the pool that run handlers
MaxTime == 50         \* the clock stops here
TickSecs == 10        \* granularity of the clock, in seconds

\* ------------------------------------------------------ program constants
Timeout == 30         \* stream_.expires_after(std::chrono::seconds(30))

Dets == {1, 2}           \* detector slots, one connection each
Workers == 1..NumWorkers

NoConn == 0           \* a moved-from tcp_stream: it holds no connection
Never == -1           \* tcp_stream expiry "never" / deadline not armed
Moved == <<-1>>       \* a moved-from flat_buffer
NoBuf == <<-2>>       \* a handler that was never constructed has no buffer
NoCfg == "none"

\* Byte streams a remote peer may send.  0x16 = 22 opens a TLS record.
GetReq == <<71, 69, 84, 32, 47>>                     \* "GET /"
Hello == <<22, 3, 1, 0, 40, 1, 0, 0, 36, 3, 3>>         \* a client_hello
HelloBig == <<22, 3, 1, 1, 0, 1, 0, 0, 252>>          \* record length 256
HelloPrefix == <<22, 3, 1>>                          \* stops inside the header
ShortRec == <<22, 3, 1, 0, 10>>                      \* record shorter than 34
NotHello == <<22, 3, 1, 0, 40, 2>>                   \* handshake type 2
TooBig == <<22, 3, 1, 0, 40, 1, 0, 0, 37>>           \* message exceeds record
Scripts == {<<>>, GetReq, Hello, HelloBig, HelloPrefix, ShortRec, NotHello, TooBig}
ConcScripts == {<<71>>, <<22>>}

VARIABLES
  stream_,      \* detect_session::stream_  : connection id or NoConn
  ctx_,         \* detect_session::ctx_
  doc_root_,    \* detect_session::doc_root_
  buffer_,      \* detect_session::buffer_  : bytes, or Moved
  refs,         \* shared_ptr use count of the detect_session
  expiry,       \* deadline stored in the stream's timer (travels with it)
  timerWait,    \* an async_wait on that timer is outstanding
  timedOut,     \* the stream's timeout flag, set by the timeout handler
  sockOpen,     \* the socket is open
  script,       \* the bytes the peer will send on the connection
  sent,         \* how many of them have arrived at the socket
  rdpos,        \* how many of them socket reads have taken
  netErr,       \* the transport has failed (reset or end of stream)
  dispatched,   \* on_run is queued on an executor: "none", "strand", "pool"
  op,           \* async_detect_ssl: "idle", "reading", "completing", "done"
  opResult,     \* (ec, result) the operation completes with
  secure,       \* the ssl_http_session made by this Detector
  plain,        \* the plain_http_session made by this Detector
  failCalls,    \* calls of fail()
  failReason,   \* the error code passed to fail()
  written,      \* bytes the Detector has written to the peer
  running,      \* what each worker thread executes
  called,       \* the listener's side: "absent", "constructed", "run", "returned"
  now,          \* the clock, in seconds
  armedAt,      \* history: when on_run ran
  sentEarly,    \* history: bytes that arrived strictly before the deadline
  sentOnTime,   \* history: bytes that arrived no later than the deadline
  ecRead,       \* history: error code of the last completed socket read
  reads,        \* history: socket reads that completed with data
  detectCalls   \* history: calls of on_detect

detVars == <<stream_, ctx_, doc_root_, buffer_, refs>>
connVars == <<expiry, timerWait, timedOut, sockOpen>>
netVars == <<script, sent, rdpos, netErr>>
opVars == <<dispatched, op, opResult>>
outVars == <<secure, plain, failCalls, failReason, written>>
histVars == <<armedAt, sentEarly, sentOnTime, ecRead, reads, detectCalls>>
vars == <<detVars, connVars, netVars, opVars, outVars, running, called, now, histVars>>

Idle == [det |-> 0, step |-> "idle", strand |-> FALSE]
NoHandler == [runs |-> 0, stream |-> NoConn, buffer |-> NoBuf, ctx |-> NoCfg, doc_root |-> NoCfg]

Min(a, b) == IF a < b THEN a ELSE b

\* ------------------------------------------------------------------------
\* The check without the test of the record length against 34.
is_tls_client_hello_no_length(b) ==
  LET n == Min(Len(b), 9) IN
  IF n < 1 THEN "indeterminate"
  ELSE IF b[1] # 22 THEN "false"
  ELSE IF n < 6 THEN "indeterminate"
  ELSE IF b[6] # 1 THEN "false"
  ELSE IF n < 9 THEN "indeterminate"
  ELSE IF b[7] * 65536 + b[8] * 256 + b[9] + 4 > b[4] * 256 + b[5] THEN "false" ELSE "true"

\* beast's detail::is_tls_client_hello, as async_detect_ssl applies it to
\* buffer_.data(): a tribool over the first 9 bytes.
is_tls_client_hello(b) ==
  LET n == Min(Len(b), 9) IN
  IF n < 1 THEN "indeterminate"
  ELSE IF b[1] # 22 THEN "false"
  ELSE IF n < 5 THEN "indeterminate"
  ELSE LET length == b[4] * 256 + b[5] IN
    IF length < 34 THEN "false"
    ELSE IF n < 6 THEN "indeterminate"
    ELSE IF b[6] # 1 THEN "false"
    ELSE IF n < 9 THEN "indeterminate"
    ELSE LET size == b[7] * 65536 + b[8] * 256 + b[9] IN
      IF size + 4 > length THEN "false" ELSE "true"

\* Bytes that arrived at the socket and no read has taken yet.
Wire(d) == SubSeq(script[d], rdpos[d] + 1, sent[d])

\* The pool hands a ready handler to a free thread; its threads are
\* interchangeable, so the lowest free one takes it.
FreeWorker(w) == running[w] = Idle /\ \A v \in Workers : v < w => running[v] # Idle

\* The strand of stream_.get_executor() runs one handler at a time.
StrandFree(d) == \A w \in Workers : ~(running[w].det = d /\ running[w].strand)

\* ------------------------------------------------------------------------
\* State after the listener has constructed a detect_session for every
\* accepted connection in acc; the other slots stay absent.
InitWith(acc, scripts) ==
  /\ stream_ = [d \in Dets |-> IF d \in acc THEN d ELSE NoConn]
  /\ ctx_ = [d \in Dets |-> "ctx"]
  /\ doc_root_ = [d \in Dets |-> "doc_root"]
  /\ buffer_ = [d \in Dets |-> <<>>]
  /\ refs = [d \in Dets |-> IF d \in acc THEN 1 ELSE 0]
  /\ expiry = [d \in Dets |-> Never]
  /\ timerWait = [d \in Dets |-> FALSE]
  /\ timedOut = [d \in Dets |-> FALSE]
  /\ sockOpen = [d \in Dets |-> d \in acc]
  /\ script \in [Dets -> scripts \cup {<<>>}]
  /\ \A d \in Dets \ acc : script[d] = <<>>
  /\ sent = [d \in Dets |-> 0]
  /\ rdpos = [d \in Dets |-> 0]
  /\ netErr = [d \in Dets |-> FALSE]
  /\ dispatched = [d \in Dets |-> "none"]
  /\ op = [d \in Dets |-> "idle"]
  /\ opResult = [d \in Dets |-> [ec |-> "none", result |-> FALSE]]
  /\ secure = [d \in Dets |-> NoHandler]
  /\ plain = [d \in Dets |-> NoHandler]
  /\ failCalls = [d \in Dets |-> 0]
  /\ failReason = [d \in Dets |-> "none"]
  /\ written = [d \in Dets |-> 0]
  /\ running = [w \in Workers |-> Idle]
  /\ called = [d \in Dets |-> IF d \in acc THEN "constructed" ELSE "absent"]
  /\ now = 0
  /\ armedAt = [d \in Dets |-> Never]
  /\ sentEarly = [d \in Dets |-> 0]
  /\ sentOnTime = [d \in Dets |-> 0]
  /\ ecRead = [d \in Dets |-> "none"]
  /\ reads = [d \in Dets |-> 0]
  /\ detectCalls = [d \in Dets |-> 0]

Init == InitWith({1}, Scripts)
InitConc == InitWith(Dets, ConcScripts)

\* ------------------------------------------------------------------------
\* stream_.get_executor(): the listener accepts every connection on a strand
\* of its own, the per-connection serialization context.
get_executor(d) == "strand"

\* run() that hands on_run to the pool itself instead of the stream's executor.
run_unserialized(d) ==
  /\ dispatched' = [dispatched EXCEPT ![d] = "pool"]
  /\ refs' = [refs EXCEPT ![d] = @ + 1]

\* run() that binds the plain this pointer instead of shared_from_this().
run_raw_this(d) ==
  /\ dispatched' = [dispatched EXCEPT ![d] = get_executor(d)]
  /\ refs' = refs

\* detect_session::run: net::dispatch(stream_.get_executor(),
\* bind_front_handler(&on_run, shared_from_this())).
run(d) ==
  /\ dispatched' = [dispatched EXCEPT ![d] = get_executor(d)]
  /\ refs' = [refs EXCEPT ![d] = @ + 1]

\* beast::async_detect_ssl(stream_, buffer_, handler): buffer_ is empty when
\* on_run calls it, so the first check is indeterminate and the operation
\* issues its first async_read_some; the stream waits on its timer when a
\* deadline is set.  The bound handler holds shared_from_this().
async_detect_ssl(d) ==
  /\ op' = [op EXCEPT ![d] = "reading"]
  /\ timerWait' = [timerWait EXCEPT ![d] = expiry'[d] # Never]
  /\ refs' = [refs EXCEPT ![d] = @ + 1]

\* on_run that starts the detection without setting the timeout.
on_run_no_deadline(d) ==
  /\ expiry' = expiry
  /\ async_detect_ssl(d)

\* on_run that also keeps a shared_ptr to itself in the Detector.
on_run_keeps_self(d) ==
  /\ expiry' = [expiry EXCEPT ![d] = now + Timeout]
  /\ op' = [op EXCEPT ![d] = "reading"]
  /\ timerWait' = [timerWait EXCEPT ![d] = expiry'[d] # Never]
  /\ refs' = [refs EXCEPT ![d] = @ + 2]

\* on_run that starts the detection first and sets the timeout after it:
\* the read already issued does not wait on the timer.
on_run_peek_first(d) ==
  /\ op' = [op EXCEPT ![d] = "reading"]
  /\ timerWait' = [timerWait EXCEPT ![d] = expiry[d] # Never]
  /\ refs' = [refs EXCEPT ![d] = @ + 1]
  /\ expiry' = [expiry EXCEPT ![d] = now + Timeout]

\* detect_session::on_run
on_run(d) ==
  /\ expiry' = [expiry EXCEPT ![d] = now + Timeout]
  /\ async_detect_ssl(d)

\* fail(ec, "detect"): the reporting hook
fail(d, ec) ==
  /\ failCalls' = [failCalls EXCEPT ![d] = @ + 1]
  /\ failReason' = [failReason EXCEPT ![d] = ec]

\* What a handler constructor receives from on_detect.
Handed(h, str, buf, ctx, root) ==
  [runs |-> h.runs + 1, stream |-> str, buffer |-> buf, ctx |-> ctx, doc_root |-> root]

\* on_detect without the return after the SSL launch: it goes on to launch
\* a plain session from the moved-from stream_ and buffer_.
on_detect_fallthrough(d, ec, result) ==
  /\ UNCHANGED <<expiry, written>>
  /\ IF ec # "none"
     THEN /\ fail(d, ec)
          /\ UNCHANGED <<secure, plain, stream_, buffer_>>
     ELSE /\ secure' = IF result
             THEN [secure EXCEPT ![d] = Handed(@, stream_[d], buffer_[d], ctx_[d], doc_root_[d])]
             ELSE secure
          /\ plain' = [plain EXCEPT ![d] =
                IF result THEN Handed(@, NoConn, <<>>, NoCfg, doc_root_[d])
                ELSE Handed(@, stream_[d], buffer_[d], NoCfg, doc_root_[d])]
          /\ stream_' = [stream_ EXCEPT ![d] = NoConn]
          /\ buffer_' = [buffer_ EXCEPT ![d] = Moved]
          /\ UNCHANGED <<failCalls, failReason>>

\* on_detect that constructs the handler with a fresh buffer instead of buffer_.
on_detect_drop_buffer(d, ec, result) ==
  /\ UNCHANGED <<expiry, written>>
  /\ IF ec # "none"
     THEN /\ fail(d, ec)
          /\ UNCHANGED <<secure, plain, stream_, buffer_>>
     ELSE /\ secure' = IF result
             THEN [secure EXCEPT ![d] = Handed(@, stream_[d], <<>>, ctx_[d], doc_root_[d])]
             ELSE secure
          /\ plain' = IF result THEN plain
             ELSE [plain EXCEPT ![d] = Handed(@, stream_[d], <<>>, NoCfg, doc_root_[d])]
          /\ stream_' = [stream_ EXCEPT ![d] = NoConn]
          /\ UNCHANGED <<buffer_, failCalls, failReason>>

\* on_detect with the branch on result inverted.
on_detect_inverted(d, ec, result) ==
  /\ UNCHANGED <<expiry, written>>
  /\ IF ec # "none"
     THEN /\ fail(d, ec)
          /\ UNCHANGED <<secure, plain, stream_, buffer_>>
     ELSE /\ secure' = IF ~result
             THEN [secure EXCEPT ![d] = Handed(@, stream_[d], buffer_[d], ctx_[d], doc_root_[d])]
             ELSE secure
          /\ plain' = IF ~result THEN plain
             ELSE [plain EXCEPT ![d] = Handed(@, stream_[d], buffer_[d], NoCfg, doc_root_[d])]
          /\ stream_' = [stream_ EXCEPT ![d] = NoConn]
          /\ buffer_' = [buffer_ EXCEPT ![d] = Moved]
          /\ UNCHANGED <<failCalls, failReason>>

\* on_detect without the test of ec.
on_detect_ignore_ec(d, ec, result) ==
  /\ UNCHANGED <<expiry, written>>
  /\ secure' = IF result
        THEN [secure EXCEPT ![d] = Handed(@, stream_[d], buffer_[d], ctx_[d], doc_root_[d])]
        ELSE secure
  /\ plain' = IF result THEN plain
        ELSE [plain EXCEPT ![d] = Handed(@, stream_[d], buffer_[d], NoCfg, doc_root_[d])]
  /\ stream_' = [stream_ EXCEPT ![d] = NoConn]
  /\ buffer_' = [buffer_ EXCEPT ![d] = Moved]
  /\ UNCHANGED <<failCalls, failReason>>

\* on_detect that reports the failure and does not return.
on_detect_fail_no_return(d, ec, result) ==
  /\ UNCHANGED <<expiry, written>>
  /\ IF ec # "none" THEN fail(d, ec) ELSE UNCHANGED <<failCalls, failReason>>
  /\ secure' = IF result
        THEN [secure EXCEPT ![d] = Handed(@, stream_[d], buffer_[d], ctx_[d], doc_root_[d])]
        ELSE secure
  /\ plain' = IF result THEN plain
        ELSE [plain EXCEPT ![d] = Handed(@, stream_[d], buffer_[d], NoCfg, doc_root_[d])]
  /\ stream_' = [stream_ EXCEPT ![d] = NoConn]
  /\ buffer_' = [buffer_ EXCEPT ![d] = Moved]

\* on_detect that copies stream_ and buffer_ into the handler and keeps them.
on_detect_copy(d, ec, result) ==
  /\ UNCHANGED <<expiry, written>>
  /\ IF ec # "none"
     THEN /\ fail(d, ec)
          /\ UNCHANGED <<secure, plain, stream_, buffer_>>
     ELSE /\ secure' = IF result
             THEN [secure EXCEPT ![d] = Handed(@, stream_[d], buffer_[d], ctx_[d], doc_root_[d])]
             ELSE secure
          /\ plain' = IF result THEN plain
             ELSE [plain EXCEPT ![d] = Handed(@, stream_[d], buffer_[d], NoCfg, doc_root_[d])]
          /\ UNCHANGED <<stream_, buffer_, failCalls, failReason>>

\* on_detect that constructs the handler without the document root.
on_detect_no_doc_root(d, ec, result) ==
  /\ UNCHANGED <<expiry, written>>
  /\ IF ec # "none"
     THEN /\ fail(d, ec)
          /\ UNCHANGED <<secure, plain, stream_, buffer_>>
     ELSE /\ secure' = IF result
             THEN [secure EXCEPT ![d] = Handed(@, stream_[d], buffer_[d], ctx_[d], NoCfg)]
             ELSE secure
          /\ plain' = IF result THEN plain
             ELSE [plain EXCEPT ![d] = Handed(@, stream_[d], buffer_[d], NoCfg, NoCfg)]
          /\ stream_' = [stream_ EXCEPT ![d] = NoConn]
          /\ buffer_' = [buffer_ EXCEPT ![d] = Moved]
          /\ UNCHANGED <<failCalls, failReason>>

\* on_detect whose failure path clears a buffer that all Detectors share.
on_detect_fail_shared_buffer(d, ec, result) ==
  /\ UNCHANGED <<expiry, written>>
  /\ IF ec # "none"
     THEN /\ fail(d, ec)
          /\ buffer_' = [e \in Dets |-> IF buffer_[e] = Moved THEN Moved ELSE <<>>]
          /\ UNCHANGED <<secure, plain, stream_>>
     ELSE /\ secure' = IF result
             THEN [secure EXCEPT ![d] = Handed(@, stream_[d], buffer_[d], ctx_[d], doc_root_[d])]
             ELSE secure
          /\ plain' = IF result THEN plain
             ELSE [plain EXCEPT ![d] = Handed(@, stream_[d], buffer_[d], NoCfg, doc_root_[d])]
          /\ stream_' = [stream_ EXCEPT ![d] = NoConn]
          /\ buffer_' = [buffer_ EXCEPT ![d] = Moved]
          /\ UNCHANGED <<failCalls, failReason>>

\* on_detect that returns on an error without reporting it.
on_detect_silent_fail(d, ec, result) ==
  /\ UNCHANGED <<expiry, written>>
  /\ IF ec # "none"
     THEN UNCHANGED <<secure, plain, stream_, buffer_, failCalls, failReason>>
     ELSE /\ secure' = IF result
             THEN [secure EXCEPT ![d] = Handed(@, stream_[d], buffer_[d], ctx_[d], doc_root_[d])]
             ELSE secure
          /\ plain' = IF result THEN plain
             ELSE [plain EXCEPT ![d] = Handed(@, stream_[d], buffer_[d], NoCfg, doc_root_[d])]
          /\ stream_' = [stream_ EXCEPT ![d] = NoConn]
          /\ buffer_' = [buffer_ EXCEPT ![d] = Moved]
          /\ UNCHANGED <<failCalls, failReason>>

\* on_detect that tests result before ec.
on_detect_result_first(d, ec, result) ==
  /\ UNCHANGED <<expiry, written>>
  /\ IF result
     THEN /\ secure' = [secure EXCEPT ![d] =
                Handed(@, stream_[d], buffer_[d], ctx_[d], doc_root_[d])]
          /\ stream_' = [stream_ EXCEPT ![d] = NoConn]
          /\ buffer_' = [buffer_ EXCEPT ![d] = Moved]
          /\ UNCHANGED <<plain, failCalls, failReason>>
     ELSE IF ec # "none"
     THEN /\ fail(d, ec)
          /\ UNCHANGED <<secure, plain, stream_, buffer_>>
     ELSE /\ plain' = [plain EXCEPT ![d] =
                Handed(@, stream_[d], buffer_[d], NoCfg, doc_root_[d])]
          /\ stream_' = [stream_ EXCEPT ![d] = NoConn]
          /\ buffer_' = [buffer_ EXCEPT ![d] = Moved]
          /\ UNCHANGED <<secure, failCalls, failReason>>

\* on_detect that calls stream_.expires_never() before it hands stream_ over.
on_detect_expires_never(d, ec, result) ==
  /\ UNCHANGED written
  /\ IF ec # "none"
     THEN /\ fail(d, ec)
          /\ UNCHANGED <<secure, plain, stream_, buffer_, expiry>>
     ELSE /\ expiry' = [expiry EXCEPT ![d] = Never]
          /\ secure' = IF result
             THEN [secure EXCEPT ![d] = Handed(@, stream_[d], buffer_[d], ctx_[d], doc_root_[d])]
             ELSE secure
          /\ plain' = IF result THEN plain
             ELSE [plain EXCEPT ![d] = Handed(@, stream_[d], buffer_[d], NoCfg, doc_root_[d])]
          /\ stream_' = [stream_ EXCEPT ![d] = NoConn]
          /\ buffer_' = [buffer_ EXCEPT ![d] = Moved]
          /\ UNCHANGED <<failCalls, failReason>>

\* detect_session::on_detect
on_detect(d, ec, result) ==
  /\ UNCHANGED <<expiry, written>>
  /\ IF ec # "none"
     THEN /\ fail(d, ec)
          /\ UNCHANGED <<secure, plain, stream_, buffer_>>
     ELSE IF result
     THEN /\ secure' = [secure EXCEPT ![d] =
                Handed(@, stream_[d], buffer_[d], ctx_[d], doc_root_[d])]
          /\ stream_' = [stream_ EXCEPT ![d] = NoConn]
          /\ buffer_' = [buffer_ EXCEPT ![d] = Moved]
          /\ UNCHANGED <<plain, failCalls, failReason>>
     ELSE /\ plain' = [plain EXCEPT ![d] =
                Handed(@, stream_[d], buffer_[d], NoCfg, doc_root_[d])]
          /\ stream_' = [stream_ EXCEPT ![d] = NoConn]
          /\ buffer_' = [buffer_ EXCEPT ![d] = Moved]
          /\ UNCHANGED <<secure, failCalls, failReason>>

\* ------------------------------------------------------------------------
\* A buffer that keeps only what the latest read wrote.
commit_overwrite(buf, bytes) == bytes

\* flat_buffer: prepare(n) then commit(bytes_transferred) appends what the
\* read wrote to the readable bytes.
commit(buf, bytes) == buf \o bytes

\* The error code tcp_stream hands to the completion of async_read_some:
\* after the read it cancels the timer wait, and when the timeout handler
\* has already run (it closed the socket) the code becomes beast::error::timeout.
read_ec(d, ec0) ==
  IF expiry[d] # Never /\ ~timerWait[d] /\ timedOut[d] THEN "timeout" ELSE ec0

Busy(w, d, step, strand) == [running EXCEPT ![w] = [det |-> d, step |-> step, strand |-> strand]]

\* The listener calls run() on the detect_session it made; on_run is now
\* queued on the executor and the caller is still inside run().
Run(w, d) ==
  /\ FreeWorker(w)
  /\ called[d] = "constructed"
  /\ run(d)
  /\ called' = [called EXCEPT ![d] = "run"]
  /\ running' = Busy(w, d, "run", FALSE)
  /\ UNCHANGED <<stream_, ctx_, doc_root_, buffer_, connVars, netVars, op, opResult,
                 outVars, now, histVars>>

\* The executor invokes on_run: a free worker takes it from the queue, or
\* net::dispatch invokes it inside run() on the caller's thread.  A handler
\* on the strand waits until the strand is free.
OnRun(w, d) ==
  /\ dispatched[d] # "none"
  /\ \/ FreeWorker(w)
     \/ running[w] = [det |-> d, step |-> "run", strand |-> FALSE]
  /\ dispatched[d] = "strand" => StrandFree(d)
  /\ on_run(d)
  /\ dispatched' = [dispatched EXCEPT ![d] = "none"]
  /\ running' = Busy(w, d, IF running[w] = Idle THEN "on_run" ELSE "on_run_inline",
                     dispatched[d] = "strand")
  /\ armedAt' = [armedAt EXCEPT ![d] = now]
  /\ UNCHANGED <<stream_, ctx_, doc_root_, buffer_, timedOut, sockOpen, netVars,
                 opResult, outVars, called, now, sentEarly, sentOnTime, ecRead,
                 reads, detectCalls>>

\* A completion of the operation's async_read_some: with the bytes that
\* arrived, with the transport's error, or aborted because the timeout
\* handler closed the socket.  async_detect_ssl stops on an error, else
\* commits the bytes, and goes on reading while the check is indeterminate.
ReadComplete(w, d) ==
  /\ FreeWorker(w)
  /\ op[d] = "reading"
  /\ StrandFree(d)
  /\ \E kind \in {"data", "transport", "aborted"} :
       /\ kind = "aborted" => ~sockOpen[d]
       /\ kind = "data" => sockOpen[d] /\ Wire(d) # <<>>
       /\ kind = "transport" => sockOpen[d] /\ netErr[d]
       /\ LET bytes == IF kind = "data" THEN Wire(d) ELSE <<>>
              ec == read_ec(d, IF kind = "data" THEN "none" ELSE kind)
              buf == IF ec = "none" THEN commit(buffer_[d], bytes) ELSE buffer_[d]
              r == is_tls_client_hello(buf)
              complete == ec # "none" \/ r # "indeterminate"
          IN /\ rdpos' = [rdpos EXCEPT ![d] = @ + Len(bytes)]
             /\ buffer_' = [buffer_ EXCEPT ![d] = buf]
             /\ timedOut' = [timedOut EXCEPT ![d] = FALSE]
             /\ timerWait' = [timerWait EXCEPT ![d] = ~complete /\ expiry[d] # Never]
             /\ op' = [op EXCEPT ![d] = IF complete THEN "completing" ELSE "reading"]
             /\ opResult' = [opResult EXCEPT ![d] =
                   IF complete THEN [ec |-> ec, result |-> ec = "none" /\ r = "true"] ELSE @]
             /\ ecRead' = [ecRead EXCEPT ![d] = ec]
             /\ reads' = [reads EXCEPT ![d] = IF kind = "data" THEN @ + 1 ELSE @]
  /\ running' = Busy(w, d, "read", TRUE)
  /\ UNCHANGED <<stream_, ctx_, doc_root_, refs, expiry, sockOpen, script, sent, netErr,
                 dispatched, outVars, called, now, armedAt, sentEarly, sentOnTime,
                 detectCalls>>

\* An operation that goes on reading after it has invoked its handler.
complete_now_rearmed(d) == op' = [op EXCEPT ![d] = "reading"]

\* The composed operation completes: it is over once it has moved its
\* handler out and invoked it.
complete_now(d) == op' = [op EXCEPT ![d] = "done"]

\* The finished operation invokes the bound handler on_detect(ec, result),
\* in the same handler invocation that completed the last read.
OnDetect(w, d) ==
  /\ running[w] = [det |-> d, step |-> "read", strand |-> TRUE]
  /\ op[d] = "completing"
  /\ on_detect(d, opResult[d].ec, opResult[d].result)
  /\ complete_now(d)
  /\ running' = Busy(w, d, "on_detect", TRUE)
  /\ detectCalls' = [detectCalls EXCEPT ![d] = @ + 1]
  /\ UNCHANGED <<ctx_, doc_root_, refs, timerWait, timedOut, sockOpen, netVars,
                 dispatched, opResult,
                 called, now, armedAt, sentEarly, sentOnTime, ecRead, reads>>

\* tcp_stream's timeout handler: the timer wait of a pending read expired;
\* it closes the socket and sets the timeout flag.
TimeoutHandler(w, d) ==
  /\ FreeWorker(w)
  /\ timerWait[d] /\ expiry[d] # Never /\ now >= expiry[d]
  /\ StrandFree(d)
  /\ timerWait' = [timerWait EXCEPT ![d] = FALSE]
  /\ IF op[d] = "reading"
     THEN /\ sockOpen' = [sockOpen EXCEPT ![d] = FALSE]
          /\ timedOut' = [timedOut EXCEPT ![d] = TRUE]
     ELSE UNCHANGED <<sockOpen, timedOut>>
  /\ running' = Busy(w, d, "timeout", TRUE)
  /\ UNCHANGED <<detVars, expiry, netVars, opVars, outVars, called, now, histVars>>

\* One shared_ptr to the detect_session goes away.  The last one destroys
\* the Detector, and a stream_ that still holds the connection closes it.
Release(d) ==
  /\ refs' = [refs EXCEPT ![d] = @ - 1]
  /\ IF refs[d] = 1 /\ stream_[d] # NoConn
     THEN /\ sockOpen' = [sockOpen EXCEPT ![d] = FALSE]
          /\ timerWait' = [timerWait EXCEPT ![d] = FALSE]
     ELSE UNCHANGED <<sockOpen, timerWait>>

\* A run() that waits for the detection to finish before it returns.
Return_blocking(w) ==
  LET d == running[w].det
      step == running[w].step
  IN /\ running[w] # Idle
     /\ step = "read" => op[d] # "completing"
     /\ step = "run" => op[d] = "done"
     /\ IF step \in {"run", "on_run", "on_run_inline", "on_detect"}
        THEN Release(d)
        ELSE UNCHANGED <<refs, sockOpen, timerWait>>
     /\ running' = IF step = "on_run_inline" THEN Busy(w, d, "run", FALSE)
                   ELSE [running EXCEPT ![w] = Idle]
     /\ called' = IF step = "run" THEN [called EXCEPT ![d] = "returned"] ELSE called
     /\ UNCHANGED <<stream_, ctx_, doc_root_, buffer_, expiry, timedOut, netVars,
                    opVars, outVars, now, histVars>>

\* A worker leaves the function it executes.  Returning from a handler
\* destroys the handler object and the shared_ptr bound into it; returning
\* from run() destroys the listener's temporary shared_ptr.
Return(w) ==
  LET d == running[w].det
      step == running[w].step
  IN /\ running[w] # Idle
     /\ step = "read" => op[d] # "completing"
     /\ IF step \in {"run", "on_run", "on_run_inline", "on_detect"}
        THEN Release(d)
        ELSE UNCHANGED <<refs, sockOpen, timerWait>>
     /\ running' = IF step = "on_run_inline" THEN Busy(w, d, "run", FALSE)
                   ELSE [running EXCEPT ![w] = Idle]
     /\ called' = IF step = "run" THEN [called EXCEPT ![d] = "returned"] ELSE called
     /\ UNCHANGED <<stream_, ctx_, doc_root_, buffer_, expiry, timedOut, netVars,
                    opVars, outVars, now, histVars>>

\* The remote peer: k more bytes of its stream arrive at the socket.
Send(d, k) ==
  /\ called[d] # "absent"
  /\ ~netErr[d]
  /\ sent[d] + k <= Len(script[d])
  /\ sent' = [sent EXCEPT ![d] = @ + k]
  /\ sentEarly' = [sentEarly EXCEPT ![d] =
        IF armedAt[d] = Never \/ now < armedAt[d] + Timeout THEN @ + k ELSE @]
  /\ sentOnTime' = [sentOnTime EXCEPT ![d] =
        IF armedAt[d] = Never \/ now <= armedAt[d] + Timeout THEN @ + k ELSE @]
  /\ UNCHANGED <<detVars, connVars, script, rdpos, netErr, opVars, outVars, running,
                 called, now, armedAt, ecRead, reads, detectCalls>>

\* The transport fails: the peer resets or closes the connection.
PeerError(d) ==
  /\ called[d] # "absent"
  /\ ~netErr[d]
  /\ netErr' = [netErr EXCEPT ![d] = TRUE]
  /\ UNCHANGED <<detVars, connVars, script, sent, rdpos, opVars, outVars, running,
                 called, now, histVars>>

\* A handler is ready to run for d.
Ready(d) ==
  \/ dispatched[d] # "none"
  \/ op[d] = "reading" /\ (~sockOpen[d] \/ Wire(d) # <<>> \/ netErr[d])
  \/ timerWait[d] /\ expiry[d] # Never /\ now >= expiry[d]

\* The next instant of the clock: TickSecs later, or the earliest deadline a
\* timer waits for when that comes first.
NextTime ==
  LET due == {expiry[d] : d \in {e \in Dets : timerWait[e] /\ expiry[e] > now}}
      t == now + TickSecs
  IN IF \E x \in due : x < t THEN CHOOSE x \in due : \A y \in due : x <= y ELSE t

\* Time passes while the pool has nothing to run: handlers take no time.
Tick ==
  /\ now < MaxTime
  /\ \A w \in Workers : running[w] = Idle
  /\ \A d \in Dets : ~Ready(d)
  /\ now' = NextTime
  /\ UNCHANGED <<detVars, connVars, netVars, opVars, outVars, running, called, histVars>>

Next ==
  \/ \E w \in Workers, d \in Dets : Run(w, d)
  \/ \E w \in Workers, d \in Dets : OnRun(w, d)
  \/ \E w \in Workers, d \in Dets : ReadComplete(w, d)
  \/ \E w \in Workers, d \in Dets : OnDetect(w, d)
  \/ \E w \in Workers, d \in Dets : TimeoutHandler(w, d)
  \/ \E w \in Workers : Return(w)
  \/ \E d \in Dets : \E k \in 1..Len(script[d]) : Send(d, k)
  \/ \E d \in Dets : PeerError(d)
  \/ Tick

\* on_detect as a function of its arguments: the pending operation invokes
\* the handler with any error code and any result.
CompleteWith(w, d, ec, result) ==
  /\ FreeWorker(w)
  /\ op[d] = "reading"
  /\ StrandFree(d)
  /\ on_detect(d, ec, result)
  /\ complete_now(d)
  /\ opResult' = [opResult EXCEPT ![d] = [ec |-> ec, result |-> result]]
  /\ timerWait' = [timerWait EXCEPT ![d] = FALSE]
  /\ running' = Busy(w, d, "on_detect", TRUE)
  /\ detectCalls' = [detectCalls EXCEPT ![d] = @ + 1]
  /\ UNCHANGED <<ctx_, doc_root_, refs, timedOut, sockOpen, netVars, dispatched,
                 called, now, armedAt, sentEarly, sentOnTime, ecRead, reads>>

ErrorCodes == {"none", "transport", "timeout", "aborted"}

NextDirect ==
  \/ \E w \in Workers, d \in Dets : Run(w, d)
  \/ \E w \in Workers, d \in Dets : OnRun(w, d)
  \/ \E w \in Workers, d \in Dets : ReadComplete(w, d)
  \/ \E w \in Workers, d \in Dets : OnDetect(w, d)
  \/ \E w \in Workers, d \in Dets, ec \in ErrorCodes, result \in BOOLEAN :
        CompleteWith(w, d, ec, result)
  \/ \E w \in Workers : Return(w)
  \/ \E d \in Dets : \E k \in 1..Len(script[d]) : Send(d, k)

Spec == Init /\ [][Next]_vars
SpecConc == InitConc /\ [][Next]_vars
SpecDirect == Init /\ [][NextDirect]_vars

TypeOK ==
  /\ \A d \in Dets : refs[d] >= 0 /\ rdpos[d] <= sent[d] /\ sent[d] <= Len(script[d])
  /\ now >= 0

\* ========================================================================
\* Vocabulary of the properties
\* ========================================================================
Accepted == {d \in Dets : called[d] # "absent"}
Terminal(d) == secure[d].runs + plain[d].runs + failCalls[d] > 0
Deadline(d) == armedAt[d] + Timeout
Consumed(d) == SubSeq(script[d], 1, rdpos[d])
EarlyBytes(d) == SubSeq(script[d], 1, sentEarly[d])

\* A TLS record header (type 0x16, payload of at least 34 bytes) followed by
\* the header of a client_hello message that fits into the record.
ValidPreamble(s) ==
  /\ Len(s) >= 9
  /\ s[1] = 22
  /\ s[4] * 256 + s[5] >= 34
  /\ s[6] = 1
  /\ s[7] * 65536 + s[8] * 256 + s[9] + 4 <= s[4] * 256 + s[5]

\* Some byte of s already contradicts the preamble.
RuledOut(s) ==
  \/ Len(s) >= 1 /\ s[1] # 22
  \/ Len(s) >= 5 /\ s[4] * 256 + s[5] < 34
  \/ Len(s) >= 6 /\ s[6] # 1
  \/ Len(s) >= 9 /\ s[7] * 65536 + s[8] * 256 + s[9] + 4 > s[4] * 256 + s[5]

\* C1: once on_detect has run for a Detector exactly one of {Secure Handler
\* started, Plain Handler started, fail() invoked} has happened, once; before
\* that none has, and never two of them.
C1_ExactlyOneOutcome ==
  \A d \in Dets :
    /\ secure[d].runs + plain[d].runs + failCalls[d] <= 1
    /\ detectCalls[d] >= 1 => secure[d].runs + plain[d].runs + failCalls[d] = 1
    /\ detectCalls[d] = 0 => ~Terminal(d)

C1_Witness ==
  \E d \in Dets : detectCalls[d] = 1 /\ secure[d].runs = 1 /\ plain[d].runs = 0
                  /\ failCalls[d] = 0 /\ op[d] = "done"

\* C2: while the Detector holds buffer_ it equals the bytes read so far from
\* the connection, in arrival order, over any number of partial reads; the
\* buffer a started handler holds equals the bytes read up to the decision.
C2_BufferFidelity ==
  \A d \in Dets :
    /\ buffer_[d] # Moved => buffer_[d] = Consumed(d)
    /\ secure[d].runs > 0 => secure[d].buffer = Consumed(d)
    /\ plain[d].runs > 0 => plain[d].buffer = Consumed(d)

C2_Witness ==
  \E d \in Dets : plain[d].runs = 1 /\ reads[d] >= 2 /\ Len(plain[d].buffer) = 5
                  /\ buffer_[d] = Moved

\* C3: when the bytes that arrived before the deadline begin with a valid
\* preamble and the transport did not fail, no failure is reported and no
\* Plain Handler is started, and once on_detect has run the Secure Handler is
\* started with exactly the bytes consumed from the connection.
C3_SecureClassified ==
  \A d \in Dets :
    (ValidPreamble(EarlyBytes(d)) /\ ~netErr[d]) =>
      /\ plain[d].runs = 0 /\ failCalls[d] = 0
      /\ detectCalls[d] >= 1 =>
           secure[d].runs = 1 /\ secure[d].buffer = Consumed(d) /\ rdpos[d] >= 9

C3_Witness ==
  \E d \in Dets : ValidPreamble(EarlyBytes(d)) /\ ~netErr[d] /\ detectCalls[d] = 1
                  /\ secure[d].runs = 1 /\ reads[d] = 1

\* C4 as stated: every sequence that does not match the preamble, a proper
\* prefix that then stops included, arrived before the deadline without
\* transport error, is classified Plain.
C4_Original ==
  \A d \in Dets :
    (~ValidPreamble(script[d]) /\ sent[d] > 0 /\ sentEarly[d] = Len(script[d])
       /\ ~netErr[d] /\ detectCalls[d] >= 1) =>
      plain[d].runs = 1 /\ secure[d].runs = 0 /\ plain[d].buffer = Consumed(d)

\* C4 amended: when the bytes that arrived before the deadline rule the
\* preamble out and the transport did not fail, the connection is classified
\* Plain with exactly the bytes consumed; a sequence that is only a proper
\* prefix of a preamble ends in a failure and no handler.
C4_PlainClassified ==
  \A d \in Dets :
    /\ (RuledOut(EarlyBytes(d)) /\ ~netErr[d]) =>
         /\ secure[d].runs = 0 /\ failCalls[d] = 0
         /\ detectCalls[d] >= 1 => plain[d].runs = 1 /\ plain[d].buffer = Consumed(d)
    /\ (~RuledOut(script[d]) /\ ~ValidPreamble(script[d]) /\ detectCalls[d] >= 1) =>
         failCalls[d] = 1 /\ plain[d].runs = 0 /\ secure[d].runs = 0

C4_Witness ==
  \E d \in Dets : RuledOut(EarlyBytes(d)) /\ ~netErr[d] /\ plain[d].runs = 1
                  /\ Len(plain[d].buffer) = 9

\* C5: a connection that delivered no byte up to the deadline armed by
\* on_run, and did not fail, has been reported with a timeout once the
\* deadline is past, and no handler is started, also when bytes arrive later.
C5_SilentTimeout ==
  \A d \in Dets :
    (armedAt[d] # Never /\ now > Deadline(d) /\ sentOnTime[d] = 0 /\ ~netErr[d]) =>
      /\ failCalls[d] = 1 /\ failReason[d] = "timeout"
      /\ secure[d].runs = 0 /\ plain[d].runs = 0

C5_Witness ==
  \E d \in Dets : armedAt[d] # Never /\ now > Deadline(d) /\ sentOnTime[d] = 0
                  /\ ~netErr[d] /\ failReason[d] = "timeout" /\ sent[d] > 0

\* C6: when a read of the peek completes with a transport error, with or
\* without bytes already in buffer_, no handler is started and no handler
\* receives the buffer, and on_detect reports the failure with that error.
C6_TransportError ==
  \A d \in Dets :
    ecRead[d] = "transport" =>
      /\ secure[d] = NoHandler /\ plain[d] = NoHandler
      /\ buffer_[d] = Consumed(d)
      /\ op[d] \in {"completing", "done"}
      /\ detectCalls[d] >= 1 => failCalls[d] = 1 /\ failReason[d] = "transport"

C6_Witness ==
  \E d \in Dets : ecRead[d] = "transport" /\ failCalls[d] = 1
                  /\ failReason[d] = "transport" /\ Len(buffer_[d]) >= 2

\* C7: while buffer_ holds only a partial signature and no error occurred the
\* operation is still reading and nothing is decided; a valid preamble that
\* arrived before the deadline in several reads, down to one byte a read, is
\* classified Secure with all its bytes accumulated in the one buffer.
C7_PartialSignature ==
  \A d \in Dets :
    /\ (buffer_[d] # Moved /\ ~RuledOut(buffer_[d]) /\ ~ValidPreamble(buffer_[d])
          /\ armedAt[d] # Never /\ ecRead[d] = "none") =>
         op[d] = "reading" /\ ~Terminal(d)
    /\ (ValidPreamble(EarlyBytes(d)) /\ ~netErr[d] /\ reads[d] >= 2) =>
         /\ plain[d].runs = 0 /\ failCalls[d] = 0
         /\ op[d] = "reading" => Len(buffer_[d]) < 9
         /\ Terminal(d) => secure[d].runs = 1 /\ Len(secure[d].buffer) >= 9
                           /\ secure[d].buffer = Consumed(d)

C7_Witness ==
  \E d \in Dets : ValidPreamble(EarlyBytes(d)) /\ ~netErr[d] /\ reads[d] = 9
                  /\ secure[d].runs = 1 /\ now > 0

\* Who holds connection c, and who holds the Peek Buffer of Detector d.
StreamOwners(c) ==
  {<<"detector", d>> : d \in {e \in Dets : refs[e] > 0 /\ stream_[e] = c}}
    \cup {<<"secure", d>> : d \in {e \in Dets : secure[e].stream = c}}
    \cup {<<"plain", d>> : d \in {e \in Dets : plain[e].stream = c}}

BufferOwners(d) ==
  (IF refs[d] > 0 /\ buffer_[d] # Moved THEN {<<"detector", d>>} ELSE {})
    \cup (IF secure[d].buffer # NoBuf THEN {<<"secure", d>>} ELSE {})
    \cup (IF plain[d].buffer # NoBuf THEN {<<"plain", d>>} ELSE {})

\* C8: the connection and the Peek Buffer of a Detector never have two
\* owners; while the Detector lives or a handler was started each has exactly
\* one, the same stage for both: the Detector until on_detect dispatches, the
\* started handler from that step on.
C8_ExclusiveOwnership ==
  \A d \in Accepted :
    /\ Cardinality(StreamOwners(d)) <= 1 /\ Cardinality(BufferOwners(d)) <= 1
    /\ (refs[d] > 0 /\ secure[d].runs + plain[d].runs = 0) =>
         StreamOwners(d) = {<<"detector", d>>} /\ BufferOwners(d) = {<<"detector", d>>}
    /\ secure[d].runs > 0 =>
         StreamOwners(d) = {<<"secure", d>>} /\ BufferOwners(d) = {<<"secure", d>>}
    /\ plain[d].runs > 0 =>
         StreamOwners(d) = {<<"plain", d>>} /\ BufferOwners(d) = {<<"plain", d>>}

C8_Witness ==
  \E d \in Accepted : refs[d] > 0 /\ running # [w \in Workers |-> Idle]
                      /\ StreamOwners(d) = {<<"plain", d>>}
                      /\ BufferOwners(d) = {<<"plain", d>>}

\* The handlers that are steps of a Detector's chain.
DetectorSteps == {"on_run", "on_run_inline", "read", "on_detect", "timeout"}

\* C9: no two threads execute steps of the same Detector at the same time.
C9_Serialized ==
  \A v, w \in Workers :
    (v # w /\ running[v].step \in DetectorSteps /\ running[w].step \in DetectorSteps)
      => running[v].det # running[w].det

C9_Witness ==
  \E v, w \in Workers :
    /\ running[v].step \in {"read", "on_detect"} /\ running[w].step = "timeout"
    /\ running[v].det # running[w].det

\* C10: the deadline armed in on_run stays what on_run set; once it is past
\* the Detector is terminal and reads no more, also when bytes kept arriving;
\* a timeout has closed the socket under the pending read and is a failure.
C10_HardDeadline ==
  \A d \in Dets :
    armedAt[d] # Never =>
      /\ expiry[d] = Deadline(d)
      /\ now > Deadline(d) => Terminal(d) /\ op[d] = "done"
      /\ failReason[d] = "timeout" =>
           ~sockOpen[d] /\ op[d] = "done" /\ ~timerWait[d] /\ now >= Deadline(d)
                        /\ secure[d].runs + plain[d].runs = 0

C10_Witness ==
  \E d \in Dets : failReason[d] = "timeout" /\ reads[d] >= 2 /\ now > Deadline(d)
                  /\ sentEarly[d] = Len(script[d])

\* No worker executes anything on behalf of Detector d.
Quiet(d) == \A w \in Workers : running[w].det # d

\* C11: after a failure was reported the connection stays in the Detector's
\* stream_ and no handler exists; once the failing on_detect and run() have
\* returned nothing holds the Detector, it is destroyed and the connection
\* is closed; the Detector never writes a byte to the peer.
C11_FailureCloses ==
  \A d \in Dets :
    /\ written[d] = 0
    /\ failCalls[d] >= 1 =>
         /\ stream_[d] = d /\ secure[d] = NoHandler /\ plain[d] = NoHandler
         /\ Quiet(d) => refs[d] = 0 /\ ~sockOpen[d] /\ ~timerWait[d]

C11_Witness ==
  \E d \in Dets : failReason[d] = "transport" /\ Quiet(d) /\ refs[d] = 0
                  /\ ~sockOpen[d] /\ ~timedOut[d]

\* C12: on_detect is called at most once per Detector, exactly once when the
\* operation is over and when the deadline is past, and that one call
\* produced the one result its arguments stand for.
C12_OnDetectOnce ==
  \A d \in Dets :
    /\ detectCalls[d] <= 1
    /\ op[d] = "done" <=> detectCalls[d] = 1
    /\ (armedAt[d] # Never /\ now > Deadline(d)) => detectCalls[d] = 1
    /\ detectCalls[d] = 1 =>
         /\ failCalls[d] = (IF opResult[d].ec # "none" THEN 1 ELSE 0)
         /\ opResult[d].ec # "none" => failReason[d] = opResult[d].ec
         /\ secure[d].runs = (IF opResult[d].ec = "none" /\ opResult[d].result THEN 1 ELSE 0)
         /\ plain[d].runs = (IF opResult[d].ec = "none" /\ ~opResult[d].result THEN 1 ELSE 0)

C12_Witness ==
  \E d \in Dets : detectCalls[d] = 1 /\ ecRead[d] = "timeout" /\ failReason[d] = "timeout"
                  /\ now > Deadline(d) /\ Quiet(d) /\ sent[d] > rdpos[d]

\* C13 as stated: the Plain Handler as well as the Secure Handler receives
\* the connection, the Peek Buffer, the cryptographic context and the
\* document root the Detector was constructed with.
C13_Original ==
  \A d \in Dets :
    /\ secure[d].runs > 0 =>
         secure[d] = [runs |-> 1, stream |-> d, buffer |-> Consumed(d),
                      ctx |-> ctx_[d], doc_root |-> doc_root_[d]]
    /\ plain[d].runs > 0 =>
         plain[d] = [runs |-> 1, stream |-> d, buffer |-> Consumed(d),
                     ctx |-> ctx_[d], doc_root |-> doc_root_[d]]

\* C13 amended: the Secure Handler receives the connection, the Peek Buffer,
\* the cryptographic context and the document root of the Detector, the
\* Plain Handler the connection, the Peek Buffer and the document root but
\* no cryptographic context; the Detector's configuration never changes.
C13_ConfigHandedOver ==
  \A d \in Dets :
    /\ ctx_[d] = "ctx" /\ doc_root_[d] = "doc_root"
    /\ secure[d].runs > 0 =>
         secure[d] = [runs |-> 1, stream |-> d, buffer |-> Consumed(d),
                      ctx |-> ctx_[d], doc_root |-> doc_root_[d]]
    /\ plain[d].runs > 0 =>
         plain[d] = [runs |-> 1, stream |-> d, buffer |-> Consumed(d),
                     ctx |-> NoCfg, doc_root |-> doc_root_[d]]

C13_Witness ==
  \E d \in Dets : plain[d].runs = 1 /\ plain[d].doc_root = "doc_root"
                  /\ plain[d].ctx = NoCfg /\ plain[d].buffer = GetReq

\* Everything that belongs to Detector d and its connection.
View(d) ==
  <<stream_[d], ctx_[d], doc_root_[d], buffer_[d], refs[d], expiry[d], timerWait[d],
    timedOut[d], sockOpen[d], script[d], sent[d], rdpos[d], netErr[d], dispatched[d],
    op[d], opResult[d], secure[d], plain[d], failCalls[d], failReason[d], written[d],
    called[d], armedAt[d], ecRead[d], reads[d], detectCalls[d]>>

\* A step in which Detector d fails: its transport fails, its timeout
\* handler fires, a read ends with an error, or fail() is called.
FailureStep(d) ==
  \/ netErr'[d] # netErr[d]
  \/ timedOut'[d] # timedOut[d]
  \/ ecRead'[d] # ecRead[d] /\ ecRead'[d] # "none"
  \/ failCalls'[d] # failCalls[d]

\* C14: a step in which one Detector fails changes nothing of any other
\* Detector, and whatever the others do, what a Detector holds and hands
\* over is made of the bytes of its own connection only.
C14_FailuresLocal ==
  /\ [][\A d \in Dets : FailureStep(d) => \A e \in Dets \ {d} : View(e)' = View(e)]_vars
  /\ [](\A d \in Dets :
          /\ buffer_[d] # Moved => buffer_[d] = Consumed(d)
          /\ (RuledOut(EarlyBytes(d)) /\ ~netErr[d] /\ detectCalls[d] >= 1) =>
               plain[d] = [runs |-> 1, stream |-> d, buffer |-> Consumed(d),
                           ctx |-> NoCfg, doc_root |-> doc_root_[d]]
          /\ expiry[d] # Never => expiry[d] = Deadline(d))

C14_Witness ==
  \E d, e \in Dets :
    /\ d # e /\ failCalls[d] = 1 /\ failReason[d] = "transport"
    /\ op[e] = "reading" /\ buffer_[e] = <<22>> /\ sockOpen[e] /\ timerWait[e]

\* C15 as stated: at the step in which run() returns no classification
\* outcome has been produced.
C15_Original ==
  [][\A d \in Dets : (called[d] = "run" /\ called'[d] = "returned") => ~Terminal(d)]_vars

\* C15 amended: run() and on_run produce no outcome themselves, an outcome
\* comes only from on_detect after a completed read, and a thread inside
\* run() or on_run can always return: it waits neither for bytes nor for the
\* deadline.
C15_RunDoesNotWait ==
  /\ \A d \in Dets :
       /\ called[d] = "constructed" => ~Terminal(d) /\ op[d] = "idle"
       /\ op[d] \in {"idle", "reading"} => ~Terminal(d)
       /\ Terminal(d) => detectCalls[d] >= 1 /\ (reads[d] >= 1 \/ ecRead[d] # "none")
  /\ \A w \in Workers :
       running[w].step \in {"run", "on_run", "on_run_inline"} =>
         /\ ENABLED Return(w)
         /\ running[w].strand => ~Terminal(running[w].det)

C15_Witness ==
  \E d \in Dets : called[d] = "returned" /\ sent[d] = 0 /\ op[d] = "reading"
                  /\ now = 0 /\ ~Terminal(d) /\ Quiet(d)

\* The state of the Detector's state machine, read off the program state.
State(d) ==
  IF failCalls[d] > 0 THEN "Failed"
  ELSE IF secure[d].runs > 0 THEN "DispatchedSecure"
  ELSE IF plain[d].runs > 0 THEN "DispatchedPlain"
  ELSE IF called[d] \in {"absent", "constructed"} THEN "Idle"
  ELSE "Detecting"

TerminalStates == {"DispatchedSecure", "DispatchedPlain", "Failed"}

\* C16: a Detector is Idle until run() is called and does nothing before;
\* the only transitions are Idle -> Detecting, made by run(), and Detecting
\* -> a terminal state, made by the one call of on_detect; in a terminal state
\* no step of the Detector begins and its state and results never change.
C16_StateMachine ==
  /\ [](\A d \in Dets :
          /\ State(d) = "Idle" =>
               op[d] = "idle" /\ dispatched[d] = "none" /\ armedAt[d] = Never
                 /\ buffer_[d] = <<>> /\ Quiet(d)
          /\ State(d) = "Detecting" => detectCalls[d] = 0
          /\ State(d) \in TerminalStates => detectCalls[d] = 1 /\ op[d] = "done")
  /\ [][\A d \in Dets :
          /\ State(d)' # State(d) =>
               \/ /\ State(d) = "Idle" /\ State(d)' = "Detecting"
                  /\ called[d] = "constructed" /\ called'[d] = "run"
                  /\ dispatched'[d] # "none"
               \/ /\ State(d) = "Detecting" /\ State(d)' \in TerminalStates
                  /\ detectCalls'[d] = detectCalls[d] + 1
          /\ State(d) \in TerminalStates =>
               /\ \A w \in Workers : running'[w].det = d => running'[w] = running[w]
               /\ <<secure[d], plain[d], failCalls[d], failReason[d], stream_[d],
                    buffer_[d], op[d]>>' =
                  <<secure[d], plain[d], failCalls[d], failReason[d], stream_[d],
                    buffer_[d], op[d]>>]_vars

C16_Witness ==
  \E d \in Dets : State(d) = "DispatchedSecure" /\ Quiet(d) /\ refs[d] = 0
                  /\ now > Deadline(d) /\ sockOpen[d]

\* The shared_ptr the caller of run() holds: from construction until run()
\* has returned.
CallerRefs(d) == IF called[d] \in {"constructed", "run"} THEN 1 ELSE 0

\* The shared_ptrs bound into the handlers of the chain: the dispatched
\* on_run, an on_run or on_detect handler being executed, and the pending
\* detection that carries the bound on_detect.
ChainRefs(d) ==
  (IF dispatched[d] # "none" THEN 1 ELSE 0)
  + Cardinality({w \in Workers : running[w].det = d
                   /\ running[w].step \in {"on_run", "on_run_inline", "on_detect"}})
  + (IF op[d] \in {"reading", "completing"} THEN 1 ELSE 0)

\* on_detect has not returned yet.
ChainActive(d) ==
  /\ called[d] \in {"run", "returned"}
  /\ ~(op[d] = "done" /\ \A w \in Workers :
                           ~(running[w].det = d /\ running[w].step = "on_detect"))

\* C17: from the call of run() until on_detect has returned, a handler of the
\* chain holds a shared_ptr to the Detector, whether or not the caller still
\* holds its own: the reference count is the caller's reference plus the
\* chain's, the chain's is at least one, and so the Detector is alive.
C17_KeptAlive ==
  \A d \in Dets :
    /\ called[d] # "absent" => refs[d] = CallerRefs(d) + ChainRefs(d)
    /\ ChainActive(d) => ChainRefs(d) >= 1 /\ refs[d] >= 1
    /\ (\E w \in Workers : running[w].det = d /\ running[w].step # "timeout")
         => refs[d] >= 1

C17_Witness ==
  \E d \in Dets : called[d] = "returned" /\ op[d] = "reading" /\ Quiet(d)
                  /\ refs[d] = 1 /\ CallerRefs(d) = 0 /\ rdpos[d] > 0

\* C18: one run() queues one on_run, and the one step that consumes it arms
\* the 30-second deadline and issues the peek with the deadline already in
\* force; the deadline is never armed once the peek has started, and on_run,
\* the only step that issues a peek, is pending only while no peek was issued.
C18_ArmThenPeek ==
  /\ [](\A d \in Dets :
          /\ dispatched[d] # "none" => op[d] = "idle" /\ called[d] \in {"run", "returned"}
          /\ op[d] = "idle" <=> armedAt[d] = Never
          /\ op[d] = "idle" => expiry[d] = Never /\ ~timerWait[d]
          /\ op[d] = "reading" /\ sockOpen[d] => timerWait[d] /\ expiry[d] = Deadline(d))
  /\ [][\A d \in Dets :
          /\ dispatched'[d] # dispatched[d] =>
               \/ /\ dispatched[d] = "none" /\ called[d] = "constructed"
                  /\ called'[d] = "run" /\ op[d] = "idle"
               \/ /\ dispatched'[d] = "none" /\ op[d] = "idle" /\ op'[d] = "reading"
          /\ op[d] = "idle" /\ op'[d] # "idle" =>
               /\ dispatched[d] # "none" /\ dispatched'[d] = "none"
               /\ op'[d] = "reading" /\ armedAt'[d] = now
               /\ expiry'[d] = now + Timeout /\ timerWait'[d]
          /\ op[d] # "idle" => op'[d] # "idle" /\ dispatched'[d] = "none"
          /\ (expiry'[d] # expiry[d] \/ armedAt'[d] # armedAt[d]) => op[d] = "idle"]_vars

C18_Witness ==
  \E d \in Dets : \E w \in Workers :
    /\ running[w] = [det |-> d, step |-> "on_run", strand |-> TRUE]
    /\ op[d] = "reading" /\ dispatched[d] = "none" /\ armedAt[d] = now
    /\ timerWait[d] /\ expiry[d] = now + Timeout /\ now > 0

\* C19: whenever on_detect was called with an error code set, for either
\* value of the result, it reported that error once, started no handler and
\* left stream_ and buffer_ with the Detector.
C19_ErrorFirst ==
  \A d \in Dets :
    detectCalls[d] >= 1 /\ opResult[d].ec # "none" =>
      /\ failCalls[d] = 1 /\ failReason[d] = opResult[d].ec
      /\ secure[d] = NoHandler /\ plain[d] = NoHandler
      /\ stream_[d] = d /\ buffer_[d] # Moved
      /\ refs[d] > 0 => StreamOwners(d) = {<<"detector", d>>}

C19_Witness ==
  \E d \in Dets :
    /\ detectCalls[d] = 1 /\ opResult[d] = [ec |-> "timeout", result |-> TRUE]
    /\ failCalls[d] = 1 /\ buffer_[d] # <<>> /\ refs[d] > 0

\* C20: once on_run has armed the deadline no step of the Detector clears
\* or re-arms it, and a connection handed to a handler still carries the
\* expiry on_run set, 30 seconds after the arming.
C20_DeadlineHandedOver ==
  /\ [](\A d \in Dets :
          secure[d].runs + plain[d].runs > 0 =>
            /\ armedAt[d] # Never /\ expiry[d] # Never
            /\ expiry[d] = armedAt[d] + Timeout
            /\ (secure[d].stream = d \/ plain[d].stream = d))
  /\ [][\A d \in Dets : armedAt[d] # Never => expiry'[d] = expiry[d]]_vars

C20_Witness ==
  \E d \in Dets :
    /\ plain[d].runs = 1 /\ plain[d].stream = d /\ stream_[d] = NoConn
    /\ expiry[d] = Deadline(d) /\ now < expiry[d] /\ refs[d] = 0

====
